---- MODULE Spec2Model ----
(***************************************************************************)
(* Model of robin's queue adapters: the job record and its retry counter   *)
(* (queue_adapters/mod.rs) and the Redis list-backed queue                 *)
(* (queue_adapters/redis_queue.rs).                                        *)
(*                                                                         *)
(* Strings are sequences of one-character strings, so that key derivation, *)
(* JSON serialisation and JSON parsing are computed character by character.*)
(***************************************************************************)
EXTENDS Integers, Sequences, FiniteSets, TLC

(***************************************************************************)
(* Bounds of the model.                                                    *)
(***************************************************************************)
\* number of entries pushed to the store in one behaviour, by enqueue and
\* by clients other than RedisQueue together
MaxPush == 2
\* largest retry limit of the small configurations
MaxLimit == 2
\* number of increment applications followed in the RetryCount development
MaxSteps == 3
\* number of entries pushed to the store that two instances share
MaxNsPush == 1

(***************************************************************************)
(* u32.  A value is kept as two 16-bit halves [hi, lo], hi * 65536 + lo,   *)
(* so that the whole range 0..u32::MAX is exact.                           *)
(***************************************************************************)
Half == 65536

U32(hi, lo) == [hi |-> hi, lo |-> lo]

\* the u32 of a number below 65536
Small(n) == U32(0, n)

\* u32::MAX, the largest value of RetryCount::Count(u32)
U32Max == U32(Half - 1, Half - 1)

\* a > b on u32
Gt(a, b) == a.hi > b.hi \/ (a.hi = b.hi /\ a.lo > b.lo)

\* a + 1 for a below u32::MAX
Succ(a) == IF a.lo + 1 < Half THEN U32(a.hi, a.lo + 1) ELSE U32(a.hi + 1, 0)

(***************************************************************************)
(* Characters.                                                             *)
(***************************************************************************)
QUOTE == "\""
BSLASH == "\\"
\* a byte that no UTF-8 encoding contains (0xFF)
BadByte == "xFF"

s_main == <<"m", "a", "i", "n">>
s_retry == <<"r", "e", "t", "r", "y">>
s_args == <<"a", "r", "g", "s">>
s_name == <<"n", "a", "m", "e">>
s_retry_count == <<"r", "e", "t", "r", "y", "_", "c", "o", "u", "n", "t">>
s_NeverRetried == <<"N", "e", "v", "e", "r", "R", "e", "t", "r", "i", "e", "d">>
s_Count == <<"C", "o", "u", "n", "t">>

(***************************************************************************)
(* QueueIdentifier and the key of a logical queue.                         *)
(***************************************************************************)
QueueIdentifier == {"Main", "Retry"}

redis_queue_name(iden) == IF iden = "Main" THEN s_main ELSE s_retry

\* RedisConfig::default().namespace
DefaultNamespace == <<"r", "o", "b", "i", "n", "_">>

\* mutant of key: the namespace is left out of the key
keyWithoutNamespace(namespace, iden) ==
    DefaultNamespace \o <<"_">> \o redis_queue_name(iden)

\* mutant of key: the identifier is left out of the key
keyWithoutIden(namespace, iden) == namespace \o <<"_">> \o s_main

\* format!("{}_{}", self.key, iden.redis_queue_name())
key(namespace, iden) == namespace \o <<"_">> \o redis_queue_name(iden)

(***************************************************************************)
(* RetryCount.                                                             *)
(***************************************************************************)
NeverRetried == [tag |-> "NeverRetried", n |-> Small(0)]
Count(n) == [tag |-> "Count", n |-> n]

\* The outcomes of RetryCount::increment.  n + 1 on a u32 that holds
\* u32::MAX overflows: a build with overflow checks panics, a build without
\* them wraps to 0.  Both outcomes are in the set.
increment(rc) ==
    IF rc.tag = "NeverRetried" THEN {[panic |-> FALSE, rc |-> Count(Small(1))]}
    ELSE IF rc.n = U32Max
         THEN {[panic |-> TRUE, rc |-> rc],
               [panic |-> FALSE, rc |-> Count(Small(0))]}
         ELSE {[panic |-> FALSE, rc |-> Count(Succ(rc.n))]}

\* mutant of limit_reached: the limit itself counts as reached
limit_reachedAtLimit(rc, limit) ==
    IF rc.tag = "NeverRetried" THEN FALSE ELSE ~Gt(limit, rc.n)

\* RetryCount::limit_reached, with config.retry_count_limit = limit
limit_reached(rc, limit) ==
    IF rc.tag = "NeverRetried" THEN FALSE ELSE Gt(rc.n, limit)

(***************************************************************************)
(* Serialisation of an EnqueuedJob: json!(enq_job).to_string().            *)
(* The object's keys come out sorted (serde_json's map is ordered by key), *)
(* strings are quoted with '"' and '\' escaped, the unit variant is the    *)
(* string "NeverRetried" and Count(n) is the object {"Count":n}.           *)
(***************************************************************************)
DigitChars == <<"0", "1", "2", "3", "4", "5", "6", "7", "8", "9">>

\* v divided by 10, and the remainder
Div10(v) == U32(v.hi \div 10, (((v.hi % 10) * Half) + v.lo) \div 10)
Mod10(v) == (((v.hi % 10) * Half) + v.lo) % 10

\* the decimal digits of a u32
RECURSIVE Itoa(_)
Itoa(v) == IF v.hi = 0 /\ v.lo < 10 THEN <<DigitChars[v.lo + 1]>>
           ELSE Itoa(Div10(v)) \o <<DigitChars[Mod10(v) + 1]>>

RECURSIVE Escape(_)
Escape(s) ==
    IF s = <<>> THEN <<>>
    ELSE (IF Head(s) \in {QUOTE, BSLASH} THEN <<BSLASH, Head(s)>> ELSE <<Head(s)>>)
         \o Escape(Tail(s))

JsonString(s) == <<QUOTE>> \o Escape(s) \o <<QUOTE>>

\* mutant of Serialize: the name is written as args and the args as name
SerializeSwapped(job) ==
    <<"{">> \o JsonString(s_args) \o <<":">> \o JsonString(job.name)
    \o <<",">> \o JsonString(s_name) \o <<":">> \o JsonString(job.args)
    \o <<",">> \o JsonString(s_retry_count) \o <<":">>
    \o (IF job.retry_count.tag = "NeverRetried" THEN JsonString(s_NeverRetried)
        ELSE <<"{">> \o JsonString(s_Count) \o <<":">> \o Itoa(job.retry_count.n) \o <<"}">>)
    \o <<"}">>

SerializeRetryCount(rc) ==
    IF rc.tag = "NeverRetried" THEN JsonString(s_NeverRetried)
    ELSE <<"{">> \o JsonString(s_Count) \o <<":">> \o Itoa(rc.n) \o <<"}">>

Serialize(job) ==
    <<"{">> \o JsonString(s_args) \o <<":">> \o JsonString(job.args)
    \o <<",">> \o JsonString(s_name) \o <<":">> \o JsonString(job.name)
    \o <<",">> \o JsonString(s_retry_count) \o <<":">>
    \o SerializeRetryCount(job.retry_count) \o <<"}">>

(***************************************************************************)
(* Parsing: serde_json::from_str::<EnqueuedJob>.  A parse result is        *)
(* [ok, val, pos]: pos is the index of the first character not consumed.   *)
(***************************************************************************)
Fail == [ok |-> FALSE, val |-> <<>>, pos |-> 0]

At(s, i) == IF i >= 1 /\ i <= Len(s) THEN s[i] ELSE "EOF"

\* the characters of a string, after the opening quote
RECURSIVE ScanStr(_, _, _)
ScanStr(s, i, acc) ==
    IF i > Len(s) THEN Fail
    ELSE IF s[i] = QUOTE THEN [ok |-> TRUE, val |-> acc, pos |-> i + 1]
    ELSE IF s[i] = BSLASH
         THEN IF At(s, i + 1) \in {QUOTE, BSLASH}
              THEN ScanStr(s, i + 2, Append(acc, s[i + 1]))
              ELSE Fail
    ELSE ScanStr(s, i + 1, Append(acc, s[i]))

ParseStr(s, i) == IF At(s, i) = QUOTE THEN ScanStr(s, i + 1, <<>>) ELSE Fail

IsDigit(ch) == \E d \in 1..10 : DigitChars[d] = ch
DigitVal(ch) == (CHOOSE d \in 1..10 : DigitChars[d] = ch) - 1

\* acc * 10 + d; hi reaches Half when the result does not fit a u32
MulAdd(acc, d) ==
    U32((acc.hi * 10) + (((acc.lo * 10) + d) \div Half), ((acc.lo * 10) + d) % Half)

RECURSIVE ScanDigits(_, _, _)
ScanDigits(s, i, acc) ==
    IF IsDigit(At(s, i))
    THEN LET v == MulAdd(acc, DigitVal(s[i])) IN
         IF v.hi >= Half THEN Fail ELSE ScanDigits(s, i + 1, v)
    ELSE [ok |-> TRUE, val |-> acc, pos |-> i]

\* a JSON number that fits a u32: digits, no leading zero, at most u32::MAX
ParseU32(s, i) ==
    IF ~IsDigit(At(s, i)) THEN Fail
    ELSE IF s[i] = "0" /\ IsDigit(At(s, i + 1)) THEN Fail
    ELSE ScanDigits(s, i, Small(0))

\* the externally tagged enum RetryCount
ParseRetryCount(s, i) ==
    IF At(s, i) = QUOTE
    THEN LET r == ParseStr(s, i) IN
         IF r.ok /\ r.val = s_NeverRetried
         THEN [ok |-> TRUE, val |-> NeverRetried, pos |-> r.pos] ELSE Fail
    ELSE IF At(s, i) = "{"
    THEN LET k == ParseStr(s, i + 1) IN
         IF k.ok /\ k.val = s_Count /\ At(s, k.pos) = ":"
         THEN LET n == ParseU32(s, k.pos + 1) IN
              IF n.ok /\ At(s, n.pos) = "}"
              THEN [ok |-> TRUE, val |-> Count(n.val), pos |-> n.pos + 1]
              ELSE Fail
         ELSE Fail
    ELSE Fail

\* the value of a field the struct does not have is parsed and ignored
SkipValue(s, i) ==
    IF At(s, i) = QUOTE THEN ParseStr(s, i) ELSE ParseU32(s, i)

Unset == [set |-> FALSE, val |-> <<>>]
IsSet(v) == [set |-> TRUE, val |-> v]

\* the fields of the object, after '{' or ',': a field given twice, a value
\* of the wrong type, a missing field and trailing characters are errors
RECURSIVE ParseFields(_, _, _)
ParseFields(s, i, acc) ==
    LET k == ParseStr(s, i) IN
    IF ~k.ok \/ At(s, k.pos) # ":" THEN Fail
    ELSE
      LET known == k.val \in {s_args, s_name, s_retry_count}
          fld == IF k.val = s_args THEN "args"
                 ELSE IF k.val = s_name THEN "name" ELSE "retry_count"
          v == IF k.val \in {s_args, s_name} THEN ParseStr(s, k.pos + 1)
               ELSE IF k.val = s_retry_count THEN ParseRetryCount(s, k.pos + 1)
               ELSE SkipValue(s, k.pos + 1)
      IN
      IF ~v.ok THEN Fail
      ELSE IF known /\ acc[fld].set THEN Fail
      ELSE
        LET acc2 == IF known THEN [acc EXCEPT ![fld] = IsSet(v.val)] ELSE acc IN
        IF At(s, v.pos) = "," THEN ParseFields(s, v.pos + 1, acc2)
        ELSE IF At(s, v.pos) = "}" /\ v.pos = Len(s)
                /\ acc2.args.set /\ acc2.name.set /\ acc2.retry_count.set
             THEN [ok |-> TRUE,
                   val |-> [name |-> acc2.name.val, args |-> acc2.args.val,
                            retry_count |-> acc2.retry_count.val],
                   pos |-> v.pos + 1]
             ELSE Fail

from_str(s) ==
    IF At(s, 1) = "{"
    THEN ParseFields(s, 2, [args |-> Unset, name |-> Unset, retry_count |-> Unset])
    ELSE Fail

\* String::from_utf8(data.to_vec())
from_utf8_ok(data) == \A i \in 1..Len(data) : data[i] # BadByte


(***************************************************************************)
(* The inputs of the model.                                                *)
(***************************************************************************)
\* the namespaces of the RedisQueue instances that share the backend store
Namespaces == {DefaultNamespace}

AllKeys == {key(ns, iden) : ns \in Namespaces, iden \in QueueIdentifier}

\* the consumers; each one owns its connection
Consumers == {"c1", "c2"}

Job(name, args, rc) == [name |-> name, args |-> args, retry_count |-> rc]

\* the job records handed to enqueue when a single consumer dequeues
SeqJobs == {Job(<<"a">>, <<QUOTE, BSLASH>>, NeverRetried),
            Job(<<QUOTE>>, <<"}", ",">>, Count(U32Max)),
            Job(<<>>, <<"a">>, Count(Small(0)))}

\* the job record handed to enqueue when two consumers dequeue
Jobs == {Job(<<QUOTE>>, <<"}", ",">>, Count(U32Max))}

NoJob == Job(<<>>, <<>>, NeverRetried)

\* a record another producer wrote with its fields in another order and
\* with a field EnqueuedJob does not have
OtherOrder ==
    <<"{">> \o JsonString(s_name) \o <<":">> \o JsonString(<<"z">>)
    \o <<",">> \o JsonString(<<"x">>) \o <<":">> \o <<"7">>
    \o <<",">> \o JsonString(s_retry_count) \o <<":">> \o SerializeRetryCount(Count(Small(2)))
    \o <<",">> \o JsonString(s_args) \o <<":">> \o JsonString(<<>>) \o <<"}">>

\* a record cut short
Truncated == SubSeq(Serialize(Job(<<"a">>, <<>>, NeverRetried)), 1, 20)

\* payloads that clients other than RedisQueue push to a key of the store
ForeignPayloads == {<<BadByte>>, Truncated}

\* the timeouts of dequeue, in seconds: BLPOP waits without end on 0
Timeouts == {0, 5}

\* the jobs of the retrying runtime, as first enqueued
WorkerJobs == {Job(n, a, NeverRetried) :
                  n \in {<<"a">>, <<"b">>, <<"c">>}, a \in {<<>>, <<QUOTE>>}}

\* the retry counts the records of the retrying runtime go through
WorkerCounts == {NeverRetried} \cup {Count(Small(n)) : n \in 0..(MaxLimit + 1)}
                   \cup {Count(U32(Half - 1, Half - 2)), Count(U32Max)}

WorkerRecords == {[j EXCEPT !.retry_count = rc] : j \in WorkerJobs, rc \in WorkerCounts}

AllJobs == Jobs \cup SeqJobs \cup WorkerRecords

\* json!(enq_job).to_string() and serde_json::from_str, tabulated once over
\* the jobs and payloads of the model
Serialized == [j \in AllJobs |-> Serialize(j)]

Payloads == {Serialize(j) : j \in AllJobs} \cup ForeignPayloads \cup {OtherOrder}
               \cup AllKeys

Parsed == [d \in Payloads |-> from_str(d)]

(***************************************************************************)
(* State.                                                                  *)
(***************************************************************************)
VARIABLES
    store,      \* the backend: key -> list of entries [id, data]
    blocked,    \* the backend: key -> clients blocked in BLPOP, oldest first
    pc,         \* consumer -> "idle", "blocked", "replied" or "panicked"
    call,       \* consumer -> the arguments of the dequeue call it waits in
    reply,      \* consumer -> the reply to its BLPOP, not yet read
    ret,        \* what the operation of the last step returned to its caller
    sent,       \* the requests the operation of the last step sent to the backend
    nPush,      \* history: number of entries pushed so far
    enqueued,   \* history: id -> the job and key of the id-th successful enqueue
    taken,      \* history: ids in the order the backend popped them
    returns,    \* history: id -> the consumers a dequeue returned the job to
    deleted,    \* history: <<id, k>> for the ids a delete_all on key k removed
    retry,      \* the RetryCount a caller increments and tests
    worker      \* the job of a runtime that retries it on every failure

qvars == <<store, blocked, pc, call, reply, ret, sent, nPush, enqueued, taken,
           returns, deleted>>

vars == <<qvars, retry, worker>>

\* a redis::Value; id is history (0 for anything that is not an enqueued job)
Data(bytes, id) == [type |-> "Data", data |-> bytes, id |-> id]

Entry(id, data) == [id |-> id, data |-> data]

NoCall == [ns |-> DefaultNamespace, iden |-> "Main", timeout |-> 0]

\* a return value: op is the operation, k the key of its queue, c the consumer
\* (of dequeue), kind is "Ok", "Err", "Job", "BecauseTimeout", "BecauseError"
\* or "Panic", job and id the job of kind "Job", val the count of size, err
\* the error an "Err" or a "BecauseError" carries
Ret(op, k, c, kind, job, id, val) ==
    [op |-> op, k |-> k, c |-> c, kind |-> kind, job |-> job, id |-> id,
     val |-> val, err |-> "None"]

\* the return of an error: err is "Redis" (Error::from(redis::RedisError)),
\* "Serde" (Error::from(serde_json::Error)) or "UnknownRedisError"
Failure(op, k, c, kind, err) ==
    [Ret(op, k, c, kind, NoJob, 0, 0) EXCEPT !.err = err]

NoRet == Ret("none", <<>>, "-", "None", NoJob, 0, 0)

\* a request on the connection self.redis: cmd is "RPUSH", "BLPOP", "DEL" or
\* "LLEN", k its key, ok is FALSE when the exchange fails
Req(cmd, k, ok) == [cmd |-> cmd, k |-> k, ok |-> ok]

\* the value of retry while no RetryCount is followed
NoRetry == [start |-> NeverRetried, rc |-> NeverRetried, steps |-> 0,
            limit |-> Small(0), crashed |-> FALSE, reached |-> "none"]

\* the value of worker while no runtime is followed
NoWorker == [state |-> "none", iden |-> "Main", payload |-> <<>>, job |-> NoJob,
             limit |-> Small(0), requeues |-> Small(0), execs |-> Small(0),
             orig |-> NoJob]

InitQueue ==
    /\ store = [k \in AllKeys |-> <<>>]
    /\ blocked = [k \in AllKeys |-> <<>>]
    /\ pc = [c \in Consumers |-> "idle"]
    /\ call = [c \in Consumers |-> NoCall]
    /\ reply = [c \in Consumers |-> <<>>]
    /\ ret = NoRet
    /\ sent = <<>>
    /\ nPush = 0
    /\ enqueued = <<>>
    /\ taken = <<>>
    /\ returns = <<>>
    /\ deleted = {}

Init == InitQueue /\ retry = NoRetry /\ worker = NoWorker

(***************************************************************************)
(* The match of RedisQueue::dequeue on the reply of BLPOP.                 *)
(***************************************************************************)
\* bulk.get(1): the second element of the reply, if there is one
Get1(bulk) == IF Len(bulk) >= 2 THEN <<bulk[2]>> ELSE <<>>

\* mutant of DequeueMatch: the arm of None reports an error
DequeueMatchNoneIsError(k, c, bulk) ==
    LET e == Get1(bulk) IN
    IF e = <<>> THEN Failure("dequeue", k, c, "BecauseError", "UnknownRedisError")
    ELSE IF e[1].type = "Data"
    THEN IF ~from_utf8_ok(e[1].data) THEN Ret("dequeue", k, c, "Panic", NoJob, 0, 0)
         ELSE LET p == Parsed[e[1].data] IN
              IF p.ok THEN Ret("dequeue", k, c, "Job", p.val, e[1].id, 0)
              ELSE Failure("dequeue", k, c, "BecauseError", "Serde")
    ELSE Failure("dequeue", k, c, "BecauseError", "UnknownRedisError")

DequeueMatch(k, c, bulk) ==
    LET e == Get1(bulk) IN
    IF e = <<>> THEN Ret("dequeue", k, c, "BecauseTimeout", NoJob, 0, 0)
    ELSE IF e[1].type = "Data"
    THEN IF ~from_utf8_ok(e[1].data) THEN Ret("dequeue", k, c, "Panic", NoJob, 0, 0)
         ELSE LET p == Parsed[e[1].data] IN
              IF p.ok THEN Ret("dequeue", k, c, "Job", p.val, e[1].id, 0)
              ELSE Failure("dequeue", k, c, "BecauseError", "Serde")
    ELSE Failure("dequeue", k, c, "BecauseError", "UnknownRedisError")

(***************************************************************************)
(* The backend's list primitives.                                          *)
(***************************************************************************)
\* mutant of ServerPush: the entry goes to the head of the list (lpush)
ServerPushFront(k, e) ==
    IF blocked[k] # <<>>
    THEN LET c == Head(blocked[k]) IN
         /\ blocked' = [blocked EXCEPT ![k] = Tail(@)]
         /\ reply' = [reply EXCEPT ![c] = <<Data(k, 0), Data(e.data, e.id)>>]
         /\ pc' = [pc EXCEPT ![c] = "replied"]
         /\ taken' = IF e.id > 0 THEN Append(taken, e.id) ELSE taken
         /\ UNCHANGED store
    ELSE /\ store' = [store EXCEPT ![k] = <<e>> \o @]
         /\ UNCHANGED <<blocked, reply, pc, taken>>

\* mutant of ServerPush: the entry is sent to every client blocked on the key
ServerPushToAll(k, e) ==
    IF blocked[k] # <<>>
    THEN LET woken == {blocked[k][i] : i \in 1..Len(blocked[k])} IN
         /\ blocked' = [blocked EXCEPT ![k] = <<>>]
         /\ reply' = [c \in Consumers |->
                         IF c \in woken THEN <<Data(k, 0), Data(e.data, e.id)>>
                         ELSE reply[c]]
         /\ pc' = [c \in Consumers |-> IF c \in woken THEN "replied" ELSE pc[c]]
         /\ taken' = IF e.id > 0 THEN Append(taken, e.id) ELSE taken
         /\ UNCHANGED store
    ELSE /\ store' = [store EXCEPT ![k] = Append(@, e)]
         /\ UNCHANGED <<blocked, reply, pc, taken>>

\* mutant of AfterPop: the head is read and stays in the list
AfterPeek(list) == list

\* BLPOP on a list that is not empty: the list without its head
AfterPop(list) == Tail(list)

\* mutant of DelTargets: every key of the store is deleted
DelTargetsAll(k) == AllKeys

\* DEL: the keys that redis.del(&self.key(iden)) deletes
DelTargets(k) == {k}

\* RPUSH: the entry goes to the client that has been blocked on the key the
\* longest, or to the tail of the list when no client is blocked
ServerPush(k, e) ==
    IF blocked[k] # <<>>
    THEN LET c == Head(blocked[k]) IN
         /\ blocked' = [blocked EXCEPT ![k] = Tail(@)]
         /\ reply' = [reply EXCEPT ![c] = <<Data(k, 0), Data(e.data, e.id)>>]
         /\ pc' = [pc EXCEPT ![c] = "replied"]
         /\ taken' = IF e.id > 0 THEN Append(taken, e.id) ELSE taken
         /\ UNCHANGED store
    ELSE /\ store' = [store EXCEPT ![k] = Append(@, e)]
         /\ UNCHANGED <<blocked, reply, pc, taken>>

\* the part of dequeue after blpop has returned the reply bulk to consumer c
DequeueFinish(k, c, bulk) ==
    LET r == DequeueMatch(k, c, bulk) IN
    /\ ret' = r
    /\ pc' = [pc EXCEPT ![c] = IF r.kind = "Panic" THEN "panicked" ELSE "idle"]
    /\ returns' = IF r.kind = "Job" /\ r.id > 0
                  THEN [returns EXCEPT ![r.id] = Append(@, c)]
                  ELSE returns

(***************************************************************************)
(* The operations of RedisQueue.  io is FALSE when the request fails on    *)
(* the connection: the backend does not execute it and the redis client    *)
(* returns an error, which `?` hands to the caller.                        *)
(***************************************************************************)
\* mutant of Enqueue: a request that fails is sent a second time
EnqueueRetrying(ns, iden, job, io) ==
    LET k == key(ns, iden)
        data == Serialized[job]
        id == Len(enqueued) + 1
    IN
    /\ nPush < MaxPush
    /\ sent' = IF io THEN <<Req("RPUSH", k, TRUE)>>
               ELSE <<Req("RPUSH", k, FALSE), Req("RPUSH", k, TRUE)>>
    /\ ServerPush(k, Entry(id, data))
    /\ nPush' = nPush + 1
    /\ enqueued' = Append(enqueued, [job |-> job, k |-> k])
    /\ returns' = Append(returns, <<>>)
    /\ ret' = Ret("enqueue", k, "-", "Ok", NoJob, 0, 0)
    /\ UNCHANGED <<call, deleted>>
    /\ UNCHANGED <<retry, worker>>

Enqueue(ns, iden, job, io) ==
    LET k == key(ns, iden)
        data == Serialized[job]
        id == Len(enqueued) + 1
    IN
    /\ nPush < MaxPush
    /\ sent' = <<Req("RPUSH", k, io)>>
    /\ IF io
       THEN /\ ServerPush(k, Entry(id, data))
            /\ nPush' = nPush + 1
            /\ enqueued' = Append(enqueued, [job |-> job, k |-> k])
            /\ returns' = Append(returns, <<>>)
            /\ ret' = Ret("enqueue", k, "-", "Ok", NoJob, 0, 0)
            /\ UNCHANGED <<call, deleted>>
       ELSE /\ ret' = Failure("enqueue", k, "-", "Err", "Redis")
            /\ UNCHANGED <<store, blocked, pc, call, reply, nPush, enqueued,
                           taken, returns, deleted>>
    /\ UNCHANGED <<retry, worker>>

\* dequeue up to the return of blpop: an error, the head of a list that is
\* not empty, or the wait on an empty list
DequeueCall(c, ns, iden, t, io) ==
    LET k == key(ns, iden) IN
    /\ pc[c] = "idle"
    /\ sent' = <<Req("BLPOP", k, io)>>
    /\ IF ~io
       THEN /\ ret' = Failure("dequeue", k, c, "BecauseError", "Redis")
            /\ UNCHANGED <<store, blocked, pc, call, reply, taken, returns>>
       ELSE IF store[k] # <<>>
       THEN LET e == Head(store[k]) IN
            /\ store' = [store EXCEPT ![k] = AfterPop(@)]
            /\ taken' = IF e.id > 0 THEN Append(taken, e.id) ELSE taken
            /\ DequeueFinish(k, c, <<Data(k, 0), Data(e.data, e.id)>>)
            /\ UNCHANGED <<blocked, call, reply>>
       ELSE /\ blocked' = [blocked EXCEPT ![k] = Append(@, c)]
            /\ pc' = [pc EXCEPT ![c] = "blocked"]
            /\ call' = [call EXCEPT ![c] = [ns |-> ns, iden |-> iden, timeout |-> t]]
            /\ ret' = NoRet
            /\ UNCHANGED <<store, reply, taken, returns>>
    /\ UNCHANGED <<nPush, enqueued, deleted>>
    /\ UNCHANGED <<retry, worker>>

\* the backend ends the wait of a client whose timeout has passed with a nil
\* reply; a timeout of 0 never passes
ServerTimeout(c) ==
    LET k == key(call[c].ns, call[c].iden) IN
    /\ pc[c] = "blocked"
    /\ call[c].timeout > 0
    /\ blocked' = [blocked EXCEPT ![k] = SelectSeq(@, LAMBDA x : x # c)]
    /\ reply' = [reply EXCEPT ![c] = <<>>]
    /\ pc' = [pc EXCEPT ![c] = "replied"]
    /\ ret' = NoRet
    /\ sent' = <<>>
    /\ UNCHANGED <<store, call, nPush, enqueued, taken, returns, deleted>>
    /\ UNCHANGED <<retry, worker>>

\* dequeue from the return of a blpop that waited
DequeueReturn(c) ==
    /\ pc[c] = "replied"
    /\ DequeueFinish(key(call[c].ns, call[c].iden), c, reply[c])
    /\ reply' = [reply EXCEPT ![c] = <<>>]
    /\ call' = [call EXCEPT ![c] = NoCall]
    /\ sent' = <<>>
    /\ UNCHANGED <<store, blocked, nPush, enqueued, taken, deleted>>
    /\ UNCHANGED <<retry, worker>>

DeleteAll(ns, iden, io) ==
    LET k == key(ns, iden) IN
    /\ sent' = <<Req("DEL", k, io)>>
    /\ IF io
       THEN /\ store' = [x \in DOMAIN store |->
                          IF x \in DelTargets(k) THEN <<>> ELSE store[x]]
            /\ deleted' = deleted \cup
                   {<<store[p[1]][p[2]].id, k>> :
                       p \in {q \in (DelTargets(k) \cap DOMAIN store) \X (1..MaxPush) :
                                 /\ q[2] <= Len(store[q[1]])
                                 /\ store[q[1]][q[2]].id > 0}}
            /\ ret' = Ret("delete_all", k, "-", "Ok", NoJob, 0, 0)
       ELSE /\ ret' = Failure("delete_all", k, "-", "Err", "Redis")
            /\ UNCHANGED <<store, deleted>>
    /\ UNCHANGED <<blocked, pc, call, reply, nPush, enqueued, taken, returns>>
    /\ UNCHANGED <<retry, worker>>

\* mutant of Size: the length of the list of Main, whatever the identifier
SizeOfMain(ns, iden, io) ==
    LET k == key(ns, iden) IN
    /\ sent' = <<Req("LLEN", k, io)>>
    /\ ret' = IF io THEN Ret("size", k, "-", "Ok", NoJob, 0, Len(store[key(ns, "Main")]))
              ELSE Failure("size", k, "-", "Err", "Redis")
    /\ UNCHANGED <<store, blocked, pc, call, reply, nPush, enqueued, taken,
                   returns, deleted>>
    /\ UNCHANGED <<retry, worker>>

\* mutant of Size: the list is deleted after its length was read
SizeThenDel(ns, iden, io) ==
    LET k == key(ns, iden) IN
    /\ sent' = <<Req("LLEN", k, io)>>
    /\ ret' = IF io THEN Ret("size", k, "-", "Ok", NoJob, 0, Len(store[k]))
              ELSE Failure("size", k, "-", "Err", "Redis")
    /\ store' = IF io THEN [store EXCEPT ![k] = <<>>] ELSE store
    /\ UNCHANGED <<blocked, pc, call, reply, nPush, enqueued, taken,
                   returns, deleted>>
    /\ UNCHANGED <<retry, worker>>

Size(ns, iden, io) ==
    LET k == key(ns, iden) IN
    /\ sent' = <<Req("LLEN", k, io)>>
    /\ ret' = IF io THEN Ret("size", k, "-", "Ok", NoJob, 0, Len(store[k]))
              ELSE Failure("size", k, "-", "Err", "Redis")
    /\ UNCHANGED <<store, blocked, pc, call, reply, nPush, enqueued, taken,
                   returns, deleted>>
    /\ UNCHANGED <<retry, worker>>

\* another client of the store pushes a payload to a key
ForeignPush(k, data) ==
    /\ nPush < MaxPush
    /\ nPush' = nPush + 1
    /\ ServerPush(k, Entry(0, data))
    /\ ret' = NoRet
    /\ sent' = <<>>
    /\ UNCHANGED <<call, enqueued, returns, deleted>>
    /\ UNCHANGED <<retry, worker>>

\* Two consumers, producers and other clients of the store, on connections
\* that work: every request reaches the backend.  Requests that fail on the
\* connection are in the specification of one consumer below.
Next ==
    \/ \E ns \in Namespaces, iden \in QueueIdentifier, job \in Jobs :
          Enqueue(ns, iden, job, TRUE)
    \/ \E c \in Consumers, ns \in Namespaces, iden \in QueueIdentifier,
          t \in Timeouts : DequeueCall(c, ns, iden, t, TRUE)
    \/ \E c \in Consumers : ServerTimeout(c)
    \/ \E c \in Consumers : DequeueReturn(c)
    \/ \E ns \in Namespaces, iden \in QueueIdentifier : DeleteAll(ns, iden, TRUE)
    \/ \E ns \in Namespaces, iden \in QueueIdentifier : Size(ns, iden, TRUE)
    \/ \E k \in AllKeys, data \in ForeignPayloads : ForeignPush(k, data)

Spec == Init /\ [][Next]_vars

(***************************************************************************)
(* One producer and one consumer: the same operations, with several job    *)
(* records and a single caller of dequeue, on a connection whose requests  *)
(* may fail.                                                               *)
(***************************************************************************)
NextSeq ==
    \/ \E ns \in Namespaces, iden \in QueueIdentifier, job \in SeqJobs, io \in BOOLEAN :
          Enqueue(ns, iden, job, io)
    \/ \E ns \in Namespaces, iden \in QueueIdentifier, t \in Timeouts, io \in BOOLEAN :
          DequeueCall("c1", ns, iden, t, io)
    \/ ServerTimeout("c1")
    \/ DequeueReturn("c1")
    \/ \E ns \in Namespaces, iden \in QueueIdentifier, io \in BOOLEAN :
          DeleteAll(ns, iden, io)
    \/ \E ns \in Namespaces, iden \in QueueIdentifier, io \in BOOLEAN :
          Size(ns, iden, io)

SpecSeq == Init /\ [][NextSeq]_vars

(***************************************************************************)
(* A backend whose replies to BLPOP have any shape: dequeue receives the   *)
(* reply as bulk: Vec<redis::Value> and matches on bulk.get(1).            *)
(***************************************************************************)
\* a redis::Value that is not Data
Other(type) == [type |-> type, data |-> <<>>, id |-> 0]

\* the values a reply is made of
ReplyValues == {Other("Nil"), Other("Int"), Other("Bulk"),
                Data(key(DefaultNamespace, "Main"), 0),
                Data(Serialized[Job(<<"a">>, <<QUOTE, BSLASH>>, NeverRetried)], 0),
                Data(Truncated, 0)}

\* the replies: no element (nil), one, two or three elements
Replies == {<<>>} \cup {<<a>> : a \in ReplyValues}
              \cup {<<a, b>> : a \in ReplyValues, b \in ReplyValues}
              \cup {<<a, b, d>> : a \in ReplyValues, b \in ReplyValues, d \in ReplyValues}

\* the backend answers the BLPOP of a waiting client with bulk
AnyReply(c, bulk) ==
    LET k == key(call[c].ns, call[c].iden) IN
    /\ pc[c] = "blocked"
    /\ blocked' = [blocked EXCEPT ![k] = SelectSeq(@, LAMBDA x : x # c)]
    /\ reply' = [reply EXCEPT ![c] = bulk]
    /\ pc' = [pc EXCEPT ![c] = "replied"]
    /\ ret' = NoRet
    /\ sent' = <<>>
    /\ UNCHANGED <<store, call, nPush, enqueued, taken, returns, deleted>>
    /\ UNCHANGED <<retry, worker>>

NextReply ==
    \/ \E ns \in Namespaces, iden \in QueueIdentifier, t \in Timeouts, io \in BOOLEAN :
          DequeueCall("c1", ns, iden, t, io)
    \/ \E bulk \in Replies : AnyReply("c1", bulk)
    \/ DequeueReturn("c1")

SpecReply == Init /\ [][NextReply]_vars

(***************************************************************************)
(* One consumer and producers, with the scheduling that ends a wait: the   *)
(* backend answers a BLPOP whose timeout has passed, and the client reads  *)
(* the reply it was sent.  Nothing makes a producer enqueue.               *)
(***************************************************************************)
NextWait ==
    \/ \E ns \in Namespaces, iden \in QueueIdentifier, job \in Jobs, io \in BOOLEAN :
          Enqueue(ns, iden, job, io)
    \/ \E ns \in Namespaces, iden \in QueueIdentifier, t \in Timeouts, io \in BOOLEAN :
          DequeueCall("c1", ns, iden, t, io)
    \/ ServerTimeout("c1")
    \/ DequeueReturn("c1")

SpecWait == Init /\ [][NextWait]_vars
              /\ WF_vars(ServerTimeout("c1")) /\ WF_vars(DequeueReturn("c1"))

(***************************************************************************)
(* Two RedisQueue instances with different namespaces on one backend       *)
(* store, and one caller.                                                  *)
(***************************************************************************)
\* the pieces the namespaces are put together from
NsPieces == {<<>>, <<"a">>, <<"_">>, s_main, s_retry}

\* the values of RedisConfig.namespace
NsPool == {a \o b \o d : a \in NsPieces, b \in NsPieces, d \in NsPieces}
             \cup {DefaultNamespace}

\* the namespaces of the instances that share the store, two at a time
NsInstances == {<<"a">>, <<"a", "_">>, <<"a", "_">> \o s_main}

\* the keys of the instance with namespace ns
KeysOf(ns) == {key(ns, iden) : iden \in QueueIdentifier}

\* the instances of the behaviour
Instances == {ns \in NsInstances : KeysOf(ns) \subseteq DOMAIN store}

InitNs ==
    /\ \E ns1 \in NsInstances, ns2 \in NsInstances :
          /\ ns1 # ns2
          /\ store = [k \in KeysOf(ns1) \cup KeysOf(ns2) |-> <<>>]
          /\ blocked = [k \in KeysOf(ns1) \cup KeysOf(ns2) |-> <<>>]
    /\ pc = [c \in Consumers |-> "idle"]
    /\ call = [c \in Consumers |-> NoCall]
    /\ reply = [c \in Consumers |-> <<>>]
    /\ ret = NoRet
    /\ sent = <<>>
    /\ nPush = 0
    /\ enqueued = <<>>
    /\ taken = <<>>
    /\ returns = <<>>
    /\ deleted = {}
    /\ retry = NoRetry
    /\ worker = NoWorker

NextNs ==
    \/ \E ns \in Instances, iden \in QueueIdentifier, job \in Jobs :
          nPush < MaxNsPush /\ Enqueue(ns, iden, job, TRUE)
    \/ \E ns \in Instances, iden \in QueueIdentifier, t \in Timeouts :
          DequeueCall("c1", ns, iden, t, TRUE)
    \/ ServerTimeout("c1")
    \/ DequeueReturn("c1")
    \/ \E ns \in Instances, iden \in QueueIdentifier : DeleteAll(ns, iden, TRUE)
    \/ \E ns \in Instances, iden \in QueueIdentifier : Size(ns, iden, TRUE)

SpecNs == InitNs /\ [][NextNs]_vars

(***************************************************************************)
(* RetryCount on its own: a caller applies increment to a value, up to     *)
(* MaxSteps times, and asks limit_reached of it.                           *)
(***************************************************************************)
\* the values the caller starts from
RetryStarts == {NeverRetried, Count(Small(0)), Count(Small(1)),
                Count(U32(0, Half - 1)), Count(U32(Half - 1, Half - 2)),
                Count(U32Max)}

\* the values of config.retry_count_limit
Limits == {Small(n) : n \in 0..MaxLimit} \cup {U32(1, 0), U32Max}

InitRetry ==
    /\ InitQueue
    /\ worker = NoWorker
    /\ \E st \in RetryStarts, l \in Limits :
          retry = [start |-> st, rc |-> st, steps |-> 0, limit |-> l,
                   crashed |-> FALSE, reached |-> "none"]

\* rc = rc.increment(); a panic ends the caller
Increment ==
    /\ ~retry.crashed
    /\ retry.steps < MaxSteps
    /\ \E o \in increment(retry.rc) :
          retry' = [retry EXCEPT !.rc = o.rc, !.crashed = o.panic,
                                 !.steps = @ + 1, !.reached = "none"]
    /\ UNCHANGED <<qvars, worker>>

\* rc.limit_reached(&config): takes &self and returns the bool
LimitReached ==
    /\ ~retry.crashed
    /\ retry' = [retry EXCEPT !.reached =
                    IF limit_reached(retry.rc, retry.limit) THEN "true" ELSE "false"]
    /\ UNCHANGED <<qvars, worker>>

NextRetry == Increment \/ LimitReached

SpecRetry == InitRetry /\ [][NextRetry]_vars

(***************************************************************************)
(* The runtime that retries: it dequeues the job, runs its handler, and on *)
(* the handler's failure increments the retry count, checks the limit, and *)
(* enqueues the new record into Retry or abandons the job.  The handler    *)
(* fails on every attempt.                                                 *)
(***************************************************************************)
\* The job has just been enqueued into Main, under a small limit; or, under
\* the limit u32::MAX, it has failed u32::MAX - 1 times and was enqueued into
\* Retry each time (the state the runtime is in after that many failures,
\* which a search from the first enqueue is too long to reach).
InitRuntime ==
    /\ InitQueue
    /\ retry = NoRetry
    /\ \E j \in WorkerJobs :
          \/ \E l \in {Small(n) : n \in 0..MaxLimit} :
                worker = [state |-> "queued", iden |-> "Main", payload |-> Serialized[j],
                          job |-> NoJob, limit |-> l, requeues |-> Small(0),
                          execs |-> Small(0), orig |-> j]
          \/ worker = [state |-> "queued", iden |-> "Retry",
                       payload |-> Serialized[[j EXCEPT !.retry_count =
                                                 Count(U32(Half - 1, Half - 2))]],
                       job |-> NoJob, limit |-> U32Max,
                       requeues |-> U32(Half - 1, Half - 2),
                       execs |-> U32(Half - 1, Half - 2), orig |-> j]

\* dequeue(timeout, iden) returns the job; its handler starts.  The job is
\* followed until it has been enqueued into Retry more often than the limit.
Fetch ==
    /\ worker.state = "queued"
    /\ ~Gt(worker.requeues, worker.limit)
    /\ from_utf8_ok(worker.payload)
    /\ Parsed[worker.payload].ok
    /\ worker' = [worker EXCEPT !.state = "running", !.payload = <<>>,
                                !.job = Parsed[worker.payload].val,
                                !.execs = Succ(@)]
    /\ UNCHANGED <<qvars, retry>>

\* the handler has failed: increment, limit_reached, enqueue into Retry or
\* abandon.  The record that is enqueued is a new one; the record the runtime
\* dequeued stays in worker.job.
OnFailure ==
    /\ worker.state = "running"
    /\ \E o \in increment(worker.job.retry_count) :
          IF o.panic
          THEN worker' = [worker EXCEPT !.state = "crashed"]
          ELSE IF limit_reached(o.rc, worker.limit)
          THEN worker' = [worker EXCEPT !.state = "abandoned"]
          ELSE worker' = [worker EXCEPT
                             !.state = "queued", !.iden = "Retry",
                             !.payload = Serialized[[worker.job EXCEPT !.retry_count = o.rc]],
                             !.requeues = Succ(@)]
    /\ UNCHANGED <<qvars, retry>>

NextRuntime == Fetch \/ OnFailure

\* the runtime keeps running: it dequeues whenever a job is queued, and the
\* handler of a running job ends
SpecRuntime == InitRuntime /\ [][NextRuntime]_vars
                 /\ WF_vars(Fetch) /\ WF_vars(OnFailure)

(***************************************************************************)
(* Helpers of the properties.                                              *)
(***************************************************************************)
Ids == 1..Len(enqueued)

\* the positions <<k, i>> of the store that hold the job id
InStore(id) == {p \in {<<k, i>> : k \in AllKeys, i \in 1..MaxPush} :
                   p[2] <= Len(store[p[1]]) /\ store[p[1]][p[2]].id = id}

\* the consumers whose unread reply holds the job id
InReply(id) == {c \in Consumers : Len(reply[c]) >= 2 /\ reply[c][2].id = id}

\* the ids the backend popped from key k, in the order of the pops
TakenOf(k) == SelectSeq(taken, LAMBDA id : enqueued[id].k = k)

Increasing(seq) == \A i, j \in 1..Len(seq) : i < j => seq[i] < seq[j]

\* the ids of the jobs in the list of key k, head first
IdsIn(k) == SelectSeq([i \in 1..Len(store[k]) |-> store[k][i].id], LAMBDA id : id > 0)

(***************************************************************************)
(* C1: for every queue, the jobs come out in the order of the enqueue      *)
(* calls (the backend pops them in that order, what is still in the list   *)
(* was enqueued after everything popped, and every popped job is returned  *)
(* by the dequeue call that popped it), and a returned job has the name,   *)
(* args and retry_count of the job that was enqueued.                      *)
(***************************************************************************)
C1_FifoRoundTrip ==
    /\ \A k \in AllKeys : Increasing(TakenOf(k) \o IdsIn(k))
    /\ \A id \in Ids : \A i \in 1..Len(taken) :
          taken[i] = id => (returns[id] # <<>> \/ InReply(id) # {})
    /\ (ret.kind = "Job" /\ ret.id > 0) =>
          /\ ret.job = enqueued[ret.id].job
          /\ ret.k = enqueued[ret.id].k

\* two different jobs enqueued into one queue have both been dequeued
C1_Witness ==
    /\ Len(taken) = 2
    /\ enqueued[1].k = enqueued[2].k
    /\ enqueued[1].job # enqueued[2].job
    /\ returns[1] # <<>> /\ returns[2] # <<>>
    /\ ret.kind = "Job" /\ ret.id = 2

(***************************************************************************)
(* C2: a job is returned by at most one dequeue call, under every          *)
(* interleaving of the consumers: over the whole behaviour, the number of  *)
(* dequeue calls that returned it plus the replies in flight that hold it  *)
(* is at most one.                                                         *)
(***************************************************************************)
C2_AtMostOneConsumer ==
    \A id \in Ids : Len(returns[id]) + Cardinality(InReply(id)) <= 1

\* two consumers waited on the same queue and one of them got the job
C2_Witness ==
    \E c1 \in Consumers, c2 \in Consumers :
        /\ c1 # c2
        /\ Len(enqueued) >= 1 /\ returns[1] = <<c1>>
        /\ pc[c2] = "blocked"
        /\ key(call[c2].ns, call[c2].iden) = enqueued[1].k

(***************************************************************************)
(* C3: a job whose enqueue returned Ok is in exactly one place: in the     *)
(* list of the key it was enqueued into, with one dequeue call (in its     *)
(* reply or returned to its caller), or removed by a delete_all on that    *)
(* key.                                                                    *)
(***************************************************************************)
C3_ExactlyOnePlace ==
    \A id \in Ids :
        /\ Cardinality(InStore(id)) + Cardinality(InReply(id)) + Len(returns[id])
              + Cardinality({d \in deleted : d[1] = id}) = 1
        /\ \A p \in InStore(id) : p[1] = enqueued[id].k
        /\ \A d \in deleted : d[1] = id => d[2] = enqueued[id].k

\* one job was returned to a consumer and another removed by delete_all
C3_Witness ==
    /\ Len(enqueued) = 2
    /\ \E a, b \in Ids : a # b /\ returns[a] # <<>> /\ <<b, enqueued[b].k>> \in deleted

(***************************************************************************)
(* C4: a dequeue call whose wait ended with the backend's nil reply (the   *)
(* list stayed empty until the timeout passed) returns BecauseTimeout and  *)
(* nothing else; clients wait only on empty lists, and the nil reply ends  *)
(* only the wait of a call with a timeout above 0.                         *)
(***************************************************************************)
C4_TimeoutOutcome ==
    /\ [][\A c \in Consumers :
            (pc[c] = "replied" /\ reply[c] = <<>> /\ pc'[c] # "replied")
            => /\ ret' = Ret("dequeue", key(call[c].ns, call[c].iden), c,
                             "BecauseTimeout", NoJob, 0, 0)
               /\ pc'[c] = "idle"]_vars
    /\ [](\A k \in AllKeys : blocked[k] # <<>> => store[k] = <<>>)
    /\ [](\A c \in Consumers :
            (pc[c] = "replied" /\ reply[c] = <<>>) => call[c].timeout > 0)

\* a dequeue call has returned BecauseTimeout
C4_Witness == ret.kind = "BecauseTimeout" /\ ret.op = "dequeue"

(***************************************************************************)
(* C5: with no consumer waiting on the queue, a successful enqueue makes   *)
(* its list one longer; a dequeue that returns a job from the list makes   *)
(* it one shorter; size returns the length of the list, which on a queue   *)
(* nothing was taken or deleted from is the number of successful enqueue   *)
(* calls on it; and after a successful delete_all the list is empty, so    *)
(* that size returns 0.                                                    *)
(***************************************************************************)
EnqueuedTo(k) == {id \in Ids : enqueued[id].k = k}

\* nothing but enqueue has touched the list of key k
Fresh(k) ==
    /\ TakenOf(k) = <<>>
    /\ \A d \in deleted : d[2] # k
    /\ \A i \in 1..Len(store[k]) : store[k][i].id > 0

C5_SizeCounts ==
    /\ [][/\ (ret'.op = "enqueue" /\ ret'.kind = "Ok" /\ blocked[ret'.k] = <<>>)
             => Len(store'[ret'.k]) = Len(store[ret'.k]) + 1
          /\ (ret'.op = "dequeue" /\ ret'.kind = "Job" /\ pc[ret'.c] = "idle")
             => Len(store'[ret'.k]) = Len(store[ret'.k]) - 1
          /\ (ret'.op = "delete_all" /\ ret'.kind = "Ok")
             => Len(store'[ret'.k]) = 0
          /\ (ret'.op = "size" /\ ret'.kind = "Ok")
             => ret'.val = Len(store[ret'.k]) /\ store' = store]_vars
    /\ []((ret.op = "size" /\ ret.kind = "Ok" /\ Fresh(ret.k))
             => ret.val = Cardinality(EnqueuedTo(ret.k)))

\* size has returned 2 after two enqueue calls on a queue
C5_Witness ==
    /\ ret.op = "size" /\ ret.kind = "Ok" /\ ret.val = 2
    /\ Fresh(ret.k) /\ Cardinality(EnqueuedTo(ret.k)) = 2

(***************************************************************************)
(* C6: in one namespace the keys of Main and Retry differ, and enqueue,    *)
(* dequeue and delete_all on one queue leave the list of every other key   *)
(* as it was.                                                              *)
(***************************************************************************)
C6_OtherQueueUnchanged ==
    /\ [](\A ns \in Namespaces : key(ns, "Main") # key(ns, "Retry"))
    /\ [][ret'.op \in {"enqueue", "dequeue", "delete_all"}
            => \A k \in AllKeys \ {ret'.k} : store'[k] = store[k]]_vars
    /\ [][\A c \in Consumers : pc[c] = "idle" /\ pc'[c] = "blocked"
            => store' = store]_vars

\* a job was dequeued from one queue while the other queue held an entry
C6_Witness ==
    /\ ret.op = "dequeue" /\ ret.kind = "Job"
    /\ \E k \in AllKeys \ {ret.k} : store[k] # <<>>

(***************************************************************************)
(* C10 as stated: a dequeue call that takes an entry whose payload cannot  *)
(* be parsed into a job record returns BecauseError.                       *)
(***************************************************************************)
\* the payload is not the text of a job record
Poison(data) == ~from_utf8_ok(data) \/ ~Parsed[data].ok

C10_PoisonIsError ==
    [][\A c \in Consumers :
         /\ (pc[c] = "idle" /\ ret'.op = "dequeue" /\ ret'.c = c /\ store' # store
               /\ Poison(Head(store[ret'.k]).data))
            => ret'.kind = "BecauseError"
         /\ (pc[c] = "replied" /\ pc'[c] # "replied" /\ Len(reply[c]) >= 2
               /\ Poison(reply[c][2].data))
            => ret'.kind = "BecauseError"]_vars

(***************************************************************************)
(* C7 as stated: for every configured limit, a job that fails on every     *)
(* attempt is never enqueued into Retry more than limit times, has been    *)
(* enqueued into Retry exactly limit times and executed limit + 1 times    *)
(* when it is abandoned, and is eventually abandoned.                      *)
(***************************************************************************)
RetriedLimitTimes ==
    /\ ~Gt(worker.requeues, worker.limit)
    /\ worker.state = "abandoned" =>
          /\ worker.requeues = worker.limit
          /\ worker.execs = Succ(worker.limit)

C8_IncrementCounts ==
    /\ []((retry.start = NeverRetried /\ retry.steps >= 1)
             => retry.rc = Count(Small(retry.steps)))
    /\ [](retry.steps = 0 => retry.rc = retry.start)
    /\ [][(retry'.steps = retry.steps + 1 /\ retry.rc.tag = "Count")
            => ~retry'.crashed /\ retry'.rc = Count(Succ(retry.rc.n))]_vars

(***************************************************************************)
(* C9: limit_reached is false for NeverRetried, false for Count(n) with    *)
(* n <= limit and true for Count(n) with n > limit, and the call changes   *)
(* neither the retry count nor anything of the queues.                     *)
(***************************************************************************)
C9_LimitReached ==
    /\ [](retry.reached # "none" =>
            (retry.reached = "true") =
               /\ retry.rc.tag = "Count"
               /\ \/ retry.rc.n.hi > retry.limit.hi
                  \/ retry.rc.n.hi = retry.limit.hi /\ retry.rc.n.lo > retry.limit.lo)
    /\ [][retry'.reached # "none"
            => retry'.rc = retry.rc /\ retry'.limit = retry.limit /\ qvars' = qvars]_vars

\* limit_reached has returned true for the first count above the limit
C9_Witness ==
    /\ retry.reached = "true"
    /\ retry.steps >= 1
    /\ retry.rc = Count(Succ(retry.limit))

(***************************************************************************)
(* C11 as stated: a dequeue call whose reply is neither the nil reply nor  *)
(* a reply of two elements with a payload as the second returns            *)
(* BecauseError with Error::UnknownRedisError.                             *)
(***************************************************************************)
Malformed(bulk) == bulk # <<>> /\ ~(Len(bulk) = 2 /\ bulk[2].type = "Data")

C11_MalformedIsError ==
    [][\A c \in Consumers :
         (pc[c] = "replied" /\ pc'[c] # "replied" /\ Malformed(reply[c]))
         => /\ ret'.op = "dequeue" /\ ret'.c = c
            /\ ret'.kind = "BecauseError"
            /\ ret'.err = "UnknownRedisError"]_vars

(***************************************************************************)
(* C12 as stated: no operation of the queue panics, whatever the stored    *)
(* payload: no dequeue call ends in a panic.                               *)
(***************************************************************************)
C12_NoPanic ==
    /\ ret.kind # "Panic"
    /\ \A c \in Consumers : pc[c] # "panicked"

(***************************************************************************)
(* C13 as stated: every dequeue call that waits on an empty queue          *)
(* eventually stops waiting and returns, for every timeout, 0 included.    *)
(***************************************************************************)
C13_DequeueReturns ==
    \A c \in Consumers : (pc[c] = "blocked") ~> (pc[c] = "idle")

(***************************************************************************)
(* C14: a dequeue call whose BLPOP finds the list not empty takes the head *)
(* and does not return BecauseTimeout; it returns the head job when the    *)
(* head is an enqueued job.  An enqueue into a queue with waiting dequeue  *)
(* calls releases exactly one of them, with the job, and leaves the others *)
(* waiting; the released call returns that job.                            *)
(***************************************************************************)
C14_HeadOrRelease ==
    [][/\ \A c \in Consumers : \A k \in DOMAIN store :
            (pc[c] = "idle" /\ ret'.c = c /\ sent' = <<Req("BLPOP", k, TRUE)>>
               /\ store[k] # <<>>)
            => /\ ret'.op = "dequeue" /\ ret'.kind # "BecauseTimeout"
               /\ store'[k] = Tail(store[k])
               /\ pc'[c] # "blocked"
               /\ Head(store[k]).id > 0
                     => /\ ret'.kind = "Job" /\ ret'.id = Head(store[k]).id
                        /\ ret'.job = enqueued[Head(store[k]).id].job
       /\ \A k \in DOMAIN store :
            (sent' = <<Req("RPUSH", k, TRUE)>> /\ blocked[k] # <<>>)
            => /\ Cardinality({c \in Consumers : pc[c] = "blocked" /\ pc'[c] # "blocked"}) = 1
               /\ pc'[Head(blocked[k])] = "replied"
               /\ Len(reply'[Head(blocked[k])]) = 2
               /\ reply'[Head(blocked[k])][2].id = Len(enqueued')
               /\ blocked'[k] = Tail(blocked[k])
               /\ store'[k] = <<>>
       /\ \A c \in Consumers :
            (pc[c] = "replied" /\ pc'[c] # "replied" /\ Len(reply[c]) = 2
               /\ reply[c][2].id > 0)
            => /\ ret'.op = "dequeue" /\ ret'.c = c /\ ret'.kind = "Job"
               /\ ret'.id = reply[c][2].id
               /\ ret'.job = enqueued[reply[c][2].id].job]_vars

\* an enqueue has just released one of two dequeue calls that waited on its
\* queue, and the other still waits
C14_Witness ==
    /\ ret.op = "enqueue" /\ ret.kind = "Ok"
    /\ \E c1 \in Consumers, c2 \in Consumers :
          /\ c1 # c2
          /\ pc[c1] = "replied" /\ Len(reply[c1]) = 2
          /\ reply[c1][2].id = Len(enqueued)
          /\ pc[c2] = "blocked" /\ key(call[c2].ns, call[c2].iden) = ret.k

(***************************************************************************)
(* C15 as stated: a dequeue call that returns BecauseError for a payload   *)
(* that cannot be parsed leaves every list as it was: the poison entry is  *)
(* still in the list of its key, and the length of that list is unchanged. *)
(***************************************************************************)
C15_PoisonStays ==
    [][\A c \in Consumers :
         (pc[c] = "idle" /\ ret'.op = "dequeue" /\ ret'.c = c
            /\ ret'.kind = "BecauseError" /\ ret'.err = "Serde")
         => /\ store' = store
            /\ \E i \in 1..Len(store'[ret'.k]) : Poison(store'[ret'.k][i].data)]_vars

(***************************************************************************)
(* C16 as stated: every application of increment returns a Count, greater  *)
(* than the count it was applied to, also at Count(u32::MAX); and once     *)
(* limit_reached is true of a job's count it stays true under increment.   *)
(***************************************************************************)
C16_Monotonic ==
    [][retry'.steps = retry.steps + 1
         => /\ ~retry'.crashed
            /\ retry'.rc.tag = "Count"
            /\ retry.rc.tag = "Count" => Gt(retry'.rc.n, retry.rc.n)
            /\ limit_reached(retry.rc, retry.limit)
                  => limit_reached(retry'.rc, retry'.limit)]_vars

(***************************************************************************)
(* C17: two different namespaces never give the same key, whatever the     *)
(* identifiers, also for namespaces made of "_", "main" and "retry"; and   *)
(* with two instances of different namespaces on one store, an enqueue,    *)
(* dequeue, delete_all or size through one instance leaves the lists of    *)
(* the other as they were, returns only jobs enqueued into its own key,    *)
(* and counts only its own list.                                           *)
(***************************************************************************)
KeysInjective ==
    \A ns1 \in NsPool, ns2 \in NsPool :
        ns1 # ns2 => \A i1 \in QueueIdentifier, i2 \in QueueIdentifier :
                        key(ns1, i1) # key(ns2, i2)

C17_NamespacesIsolated ==
    /\ []KeysInjective
    /\ [][sent' # <<>>
            => /\ \E ns \in Instances : sent'[1].k \notin KeysOf(ns)
               /\ \A ns \in Instances : sent'[1].k \notin KeysOf(ns)
                     => \A k \in KeysOf(ns) :
                           store'[k] = store[k] /\ blocked'[k] = blocked[k]]_vars
    /\ []((ret.kind = "Job" /\ ret.id > 0) => enqueued[ret.id].k = ret.k)
    /\ []((ret.op = "size" /\ ret.kind = "Ok")
             => ret.val = Len(store[ret.k]))

\* size through one instance has returned 0 while the Main queue of the
\* other instance held a job
C17_Witness ==
    /\ ret.op = "size" /\ ret.kind = "Ok" /\ ret.val = 0
    /\ \E ns1 \in Instances, ns2 \in Instances :
          /\ ns1 # ns2
          /\ ret.k = key(ns1, "Main")
          /\ store[key(ns2, "Main")] # <<>>

(***************************************************************************)
(* C18: the record in the queue and the record the runtime holds have the  *)
(* name and args the job was created with, through every enqueue, dequeue  *)
(* and retry: the record a dequeue returns is the record of the            *)
(* payload, the record a retry enqueues into Retry has the name and args   *)
(* of the dequeued record and a retry_count that increment returned for    *)
(* its retry_count, and the dequeued record itself is unchanged by the     *)
(* increment.                                                              *)
(***************************************************************************)
SameNameArgs(a, b) == a.name = b.name /\ a.args = b.args

C18_NameArgsKept ==
    /\ [](worker.state = "queued"
            => /\ from_utf8_ok(worker.payload) /\ Parsed[worker.payload].ok
               /\ SameNameArgs(Parsed[worker.payload].val, worker.orig))
    /\ [](worker.state \in {"running", "abandoned", "crashed"}
            => SameNameArgs(worker.job, worker.orig))
    /\ [][/\ (worker.state = "queued" /\ worker'.state = "running")
            => worker'.job = Parsed[worker.payload].val
       /\ worker.state = "running"
            => /\ worker'.job = worker.job
               /\ worker'.state = "queued"
                     => /\ worker'.iden = "Retry"
                        /\ Parsed[worker'.payload].ok
                        /\ Parsed[worker'.payload].val.name = worker.job.name
                        /\ Parsed[worker'.payload].val.args = worker.job.args
                        /\ \E o \in increment(worker.job.retry_count) :
                              /\ ~o.panic
                              /\ Parsed[worker'.payload].val.retry_count = o.rc
                        /\ Parsed[worker'.payload].val.retry_count
                              # worker.job.retry_count]_vars

\* a job whose args hold a quote has been enqueued into Retry for the second
\* time, as a new record with the count 2
C18_Witness ==
    /\ worker.state = "queued" /\ worker.iden = "Retry"
    /\ worker.requeues = Small(2)
    /\ worker.job.args = <<QUOTE>>
    /\ worker.job = [worker.orig EXCEPT !.retry_count = Count(Small(1))]
    /\ Parsed[worker.payload].val = [worker.orig EXCEPT !.retry_count = Count(Small(2))]

(***************************************************************************)
(* C19: a request that fails on the connection makes its operation return  *)
(* an error that carries the redis error (dequeue: BecauseError, never     *)
(* BecauseTimeout), and leaves the backend as it was; every call sends     *)
(* exactly one request: enqueue, delete_all and size send theirs in the    *)
(* step that returns, dequeue sends its BLPOP when it is called and        *)
(* nothing when it returns from the wait.                                  *)
(***************************************************************************)
OpOf(cmd) == IF cmd = "RPUSH" THEN "enqueue"
             ELSE IF cmd = "BLPOP" THEN "dequeue"
             ELSE IF cmd = "DEL" THEN "delete_all" ELSE "size"

C19_IoFailureIsError ==
    /\ [](Len(sent) <= 1)
    /\ []((sent # <<>> /\ ~sent[1].ok)
            => /\ ret.op = OpOf(sent[1].cmd) /\ ret.k = sent[1].k
               /\ ret.kind = (IF ret.op = "dequeue" THEN "BecauseError" ELSE "Err")
               /\ ret.err = "Redis")
    /\ []((ret.op \in {"enqueue", "delete_all", "size"})
            => Len(sent) = 1 /\ OpOf(sent[1].cmd) = ret.op /\ sent[1].k = ret.k)
    /\ [][/\ (sent' # <<>> /\ ~sent'[1].ok)
              => UNCHANGED <<store, blocked, pc, reply, taken>>
          /\ \A c \in Consumers :
               /\ (pc[c] = "idle" /\ (pc'[c] # "idle" \/ ret'.c = c))
                     => Len(sent') = 1 /\ sent'[1].cmd = "BLPOP"
               /\ (pc[c] = "replied" /\ pc'[c] # "replied") => sent' = <<>>]_vars

\* the BLPOP of a dequeue on a queue that holds an entry has failed, and the
\* call has returned BecauseError
C19_Witness ==
    /\ ret.op = "dequeue" /\ ret.kind = "BecauseError" /\ ret.err = "Redis"
    /\ sent = <<Req("BLPOP", ret.k, FALSE)>>
    /\ store[ret.k] # <<>>

(***************************************************************************)
(* C20: size leaves every list, and everything else of the backend, as it  *)
(* was; and so does every step of a dequeue call that returns              *)
(* BecauseTimeout: the call that starts to wait (on a list that is empty), *)
(* the backend's nil reply, and the return.                                *)
(***************************************************************************)
C20_ReadOnly ==
    /\ [][/\ ret'.op = "size"
              => UNCHANGED <<store, blocked, pc, reply>>
          /\ \A c \in Consumers :
               /\ (pc[c] = "idle" /\ pc'[c] = "blocked")
                     => store' = store /\ store[key(call'[c].ns, call'[c].iden)] = <<>>
               /\ (pc[c] = "blocked" /\ pc'[c] = "replied" /\ reply'[c] = <<>>)
                     => store' = store
               /\ (pc[c] = "replied" /\ pc'[c] # "replied"
                      /\ ret'.kind = "BecauseTimeout")
                     => store' = store]_vars
    /\ [](ret.kind = "BecauseTimeout" => ret.op = "dequeue" /\ sent = <<>>)

\* a dequeue call on one queue has returned BecauseTimeout while the other
\* queue held two entries
C20_Witness ==
    /\ ret.op = "dequeue" /\ ret.kind = "BecauseTimeout"
    /\ \E k \in DOMAIN store : k # ret.k /\ Len(store[k]) = 2

====
